---- MODULE Spec2Model ----
(***************************************************************************)
(* Model of Parameters::Parameters (src/parameters.h): a flat map from     *)
(* "section/key" strings to string values, loaded from and saved to a      *)
(* sectioned text format, with stream-converted typed get and set.         *)
(*                                                                         *)
(* A std::string is a sequence of characters; a character is a             *)
(* one-character string and Ord gives its ASCII code, which is what        *)
(* std::string's operator< compares.                                       *)
(***************************************************************************)
EXTENDS Integers, Sequences, FiniteSets, TLC

VARIABLES parameters, \* this->parameters: the std::map of the store in use
          ss,         \* this->ss: the conversion stream [buf, fail]
          disk,       \* the file save wrote last, or NoFile
          other,      \* the map of the last Parameters object built from this one
          sectionMap, \* the std::map getSectionMap returned last
          out,        \* the caller's variable passed to get as `value`
          err,        \* the exception the last call threw, or NoError
          last,       \* the last call: its name, arguments and the map before it
          prev,       \* the call before the last one
          ops         \* the names of the calls made so far

vars == <<parameters, ss, disk, other, sectionMap, out, err, last, prev, ops>>

----------------------------------------------------------------------------
(* Characters and std::string                                              *)

Digits == <<"0", "1", "2", "3", "4", "5", "6", "7", "8", "9">>

Ord(c) ==
  CASE c = "\t" -> 9
    [] c = "\n" -> 10
    [] c = " " -> 32
    [] c = "#" -> 35
    [] c = "+" -> 43
    [] c = "-" -> 45
    [] c = "." -> 46
    [] c = "/" -> 47
    [] c = "0" -> 48
    [] c = "1" -> 49
    [] c = "2" -> 50
    [] c = "3" -> 51
    [] c = "4" -> 52
    [] c = "5" -> 53
    [] c = "6" -> 54
    [] c = "7" -> 55
    [] c = "8" -> 56
    [] c = "9" -> 57
    [] c = "=" -> 61
    [] c = "[" -> 91
    [] c = "]" -> 93
    [] c = "a" -> 97
    [] c = "b" -> 98
    [] c = "k" -> 107
    [] c = "x" -> 120
    [] c = "y" -> 121

\* std::string::npos as the code reads it through `int i` (save, getSection,
\* trimWhitespace) and compares it through std::size_t (load).
npos == -1

\* std::string::operator<: lexicographic on the character codes
RECURSIVE StrLess(_, _)
StrLess(a, b) ==
  IF b = <<>> THEN FALSE
  ELSE IF a = <<>> THEN TRUE
  ELSE IF Head(a) # Head(b) THEN Ord(Head(a)) < Ord(Head(b))
  ELSE StrLess(Tail(a), Tail(b))

\* str.find(c): the 0-based position of the first c, or npos
Find(str, c) ==
  IF \E i \in 1..Len(str) : str[i] = c
  THEN (CHOOSE i \in 1..Len(str) : str[i] = c /\ \A j \in 1..(i - 1) : str[j] # c) - 1
  ELSE npos

\* str.find_first_not_of(c)
FindFirstNotOf(str, c) ==
  IF \E i \in 1..Len(str) : str[i] # c
  THEN (CHOOSE i \in 1..Len(str) : str[i] # c /\ \A j \in 1..(i - 1) : str[j] = c) - 1
  ELSE npos

\* str.find_last_not_of(c)
FindLastNotOf(str, c) ==
  IF \E i \in 1..Len(str) : str[i] # c
  THEN (CHOOSE i \in 1..Len(str) :
          str[i] # c /\ \A j \in (i + 1)..Len(str) : str[j] = c) - 1
  ELSE npos

\* str.substr(pos, n) for pos <= size; a negative n is npos once converted to
\* std::size_t, which takes the rest of the string
Substr(str, pos, n) ==
  IF n < 0 \/ pos + n > Len(str)
  THEN SubSeq(str, pos + 1, Len(str))
  ELSE SubSeq(str, pos + 1, pos + n)

\* str.substr(pos)
SubstrFrom(str, pos) == SubSeq(str, pos + 1, Len(str))

trimWhitespace(str) ==
  LET first == FindFirstNotOf(str, " ")
      last_ == FindLastNotOf(str, " ")
  IN IF first >= 0 /\ last_ >= 0
     THEN Substr(str, first, last_ - first + 1)
     ELSE <<>>

----------------------------------------------------------------------------
(* std::map<std::string, std::string>                                      *)

EmptyMap == [k \in {} |-> <<>>]

\* a faulty m[k] = v: as m.insert would, it keeps the value a key already has
MapPutKeepsFirst(m, k, v) ==
  [x \in (DOMAIN m) \cup {k} |-> IF x \in DOMAIN m THEN m[x] ELSE v]

\* m[k] = v
MapPut(m, k, v) == [x \in (DOMAIN m) \cup {k} |-> IF x = k THEN v ELSE m[x]]

\* the keys in iteration order, begin() to end()
RECURSIVE SortedKeys(_)
SortedKeys(S) ==
  IF S = {} THEN <<>>
  ELSE LET lo == CHOOSE k \in S : \A x \in S \ {k} : StrLess(k, x)
       IN <<lo>> \o SortedKeys(S \ {lo})

----------------------------------------------------------------------------
(* Exceptions                                                              *)

NoError == [type |-> "none", msg |-> "", section |-> <<>>, text |-> <<>>]

\* ParametersFileError(message): the message's fixed part and what it quotes
ParametersFileError(msg, section, text) ==
  [type |-> "ParametersFileError", msg |-> msg, section |-> section, text |-> text]

\* KeyError(key): "Could not find key: '<key>'"
KeyError(key) ==
  [type |-> "KeyError", msg |-> "Could not find key", section |-> <<>>, text |-> key]

----------------------------------------------------------------------------
(* load                                                                    *)

\* while (!ifs.eof()) getline(ifs, line): the text split at every '\n'; a text
\* ending in '\n' (and the empty text) yields a last empty line
RECURSIVE ReadLines(_)
ReadLines(text) ==
  LET nl == Find(text, "\n")
  IN IF nl = npos THEN <<text>>
     ELSE <<Substr(text, 0, nl)>> \o ReadLines(SubstrFrom(text, nl + 1))

\* remove comments, then leading and trailing whitespace
CleanLine(line) ==
  LET found == Find(line, "#")
  IN trimWhitespace(IF found # npos THEN Substr(line, 0, found) ELSE line)

\* the vector `text`: the cleaned lines of length > 0
RECURSIVE CleanLines(_)
CleanLines(lines) ==
  IF lines = <<>> THEN <<>>
  ELSE LET line == CleanLine(Head(lines))
       IN (IF Len(line) > 0 THEN <<line>> ELSE <<>>) \o CleanLines(Tail(lines))

\* *line.begin() == '[' && *line.rbegin() == ']'
IsSectionHeader(line) == line[1] = "[" /\ line[Len(line)] = "]"

\* !n for an integer n, as the int it promotes to
LogicalNot(n) == IF n = 0 THEN 1 ELSE 0

\* a faulty test for a missing key or value: the value is not looked at
MissingKeyOnly(key, value) == LogicalNot(Len(key)) > 0

\* !key.length() > 0 || !value.length() > 0, which parses as (!n) > 0
MissingKeyOrValue(key, value) ==
  LogicalNot(Len(key)) > 0 \/ LogicalNot(Len(value)) > 0

\* a faulty fullPathKey: no separator in front of a key of the empty section
FullPathKeyNoEmptySection(sectionName, key) ==
  IF sectionName = <<>> THEN key ELSE sectionName \o <<"/">> \o key

\* fullPathKey = sectionName + "/" + key
FullPathKey(sectionName, key) == sectionName \o <<"/">> \o key

\* the loop over `text` from `sectionName` on: the map when the loop ends or
\* throws, and the exception
RECURSIVE BuildDictionary(_, _, _)
BuildDictionary(params, text, sectionName) ==
  IF text = <<>> THEN [parameters |-> params, err |-> NoError]
  ELSE
    LET line == Head(text)
    IN IF IsSectionHeader(line)
       THEN BuildDictionary(params, Tail(text),
                            trimWhitespace(Substr(line, 1, Len(line) - 2)))
       ELSE
         LET found == Find(line, "=")
             key   == trimWhitespace(Substr(line, 0, found))
             value == trimWhitespace(SubstrFrom(line, found + 1))
         IN IF found = npos
            THEN [parameters |-> params,
                  err |-> ParametersFileError("malformed expression line",
                                              sectionName, line)]
            ELSE IF MissingKeyOrValue(key, value)
            THEN [parameters |-> params,
                  err |-> ParametersFileError("missing key or value", sectionName,
                                              key \o <<"=">> \o value)]
            ELSE BuildDictionary(MapPut(params, FullPathKey(sectionName, key), value),
                                 Tail(text), sectionName)

\* a faulty load: on an exception the map is put back as it was before the call
LoadTextRollsBack(params, text) ==
  LET r == BuildDictionary(params, CleanLines(ReadLines(text)), <<>>)
  IN IF r.err = NoError THEN r ELSE [parameters |-> params, err |-> r.err]

\* load(filename) on a file that opens and holds `text`
LoadText(params, text) == BuildDictionary(params, CleanLines(ReadLines(text)), <<>>)

----------------------------------------------------------------------------
(* save                                                                    *)

\* int i = fullPathKey.find("/"); sectionName = fullPathKey.substr(0, i)
SectionOf(fullPathKey) == Substr(fullPathKey, 0, Find(fullPathKey, "/"))

\* key = fullPathKey.substr(i+1)
KeyOf(fullPathKey) == SubstrFrom(fullPathKey, Find(fullPathKey, "/") + 1)

\* the loop over the map from `keys` on, under the section `currentSectionName`
RECURSIVE WriteEntries(_, _, _)
WriteEntries(params, keys, currentSectionName) ==
  IF keys = <<>> THEN <<>>
  ELSE
    LET fullPathKey == Head(keys)
        value       == params[fullPathKey]
        sectionName == SectionOf(fullPathKey)
        key         == KeyOf(fullPathKey)
        entry       == key \o <<" ", "=", " ">> \o value \o <<"\n">>
    IN IF currentSectionName = sectionName
       THEN entry \o WriteEntries(params, Tail(keys), currentSectionName)
       ELSE <<"\n", "[">> \o sectionName \o <<"]", "\n">> \o entry
            \o WriteEntries(params, Tail(keys), sectionName)

\* what save(filename) writes to a file that opens
SaveText(params) == WriteEntries(params, SortedKeys(DOMAIN params), <<>>)

----------------------------------------------------------------------------
(* getSection, getSectionMap                                               *)

\* the loop of getSectionMap from `keys` on: sectionMap[key] = value
RECURSIVE SectionEntries(_, _, _, _)
SectionEntries(params, keys, sectionName, sectionMap_) ==
  IF keys = <<>> THEN sectionMap_
  ELSE
    LET fullPathKey == Head(keys)
        next == IF SectionOf(fullPathKey) = sectionName
                THEN MapPut(sectionMap_, KeyOf(fullPathKey), params[fullPathKey])
                ELSE sectionMap_
    IN SectionEntries(params, Tail(keys), sectionName, next)

GetSectionMapOf(params, sectionName) ==
  SectionEntries(params, SortedKeys(DOMAIN params), sectionName, EmptyMap)

----------------------------------------------------------------------------
(* Typed values and their stream conversions (get, set)                    *)

\* a typed value: t names the type and the field of that type holds the value;
\* a double is the decimal n * 10^-e (n not a multiple of 10 unless e = 0), which
\* stands for the double nearest to it
IntVal(n) == [t |-> "int", n |-> n, e |-> 0, b |-> FALSE, s |-> <<>>]

DoubleVal(m, e) == [t |-> "double", n |-> m, e |-> e, b |-> FALSE, s |-> <<>>]

BoolVal(b) == [t |-> "bool", n |-> 0, e |-> 0, b |-> b, s |-> <<>>]

StringVal(str) == [t |-> "string", n |-> 0, e |-> 0, b |-> FALSE, s |-> str]

NoVal == [t |-> "none", n |-> 0, e |-> 0, b |-> FALSE, s |-> <<>>]

RECURSIVE NatDigits(_)
NatDigits(n) ==
  IF n < 10 THEN <<Digits[n + 1]>>
  ELSE NatDigits(n \div 10) \o <<Digits[(n % 10) + 1]>>

Abs(n) == IF n < 0 THEN -n ELSE n

RECURSIVE Zeros(_)
Zeros(n) == IF n <= 0 THEN <<>> ELSE <<"0">> \o Zeros(n - 1)

FormatInt(n) == (IF n < 0 THEN <<"-">> ELSE <<>>) \o NatDigits(Abs(n))

\* the default floatfield with precision 6, for a decimal of at most 6
\* significant digits that is at least 0.0001 in size: its digits, no exponent
FormatDouble(m, e) ==
  LET d      == NatDigits(Abs(m))
      padded == Zeros(e + 1 - Len(d)) \o d
      n      == Len(padded)
  IN (IF m < 0 THEN <<"-">> ELSE <<>>)
     \o SubSeq(padded, 1, n - e)
     \o (IF e > 0 THEN <<".">> \o SubSeq(padded, n - e + 1, n) ELSE <<>>)

\* what ss << value appends
Insert(val) ==
  CASE val.t = "int"    -> FormatInt(val.n)
    [] val.t = "bool"   -> IF val.b THEN <<"1">> ELSE <<"0">>
    [] val.t = "string" -> val.s
    [] val.t = "double" -> FormatDouble(val.n, val.e)

IsSpace(c) == c \in {" ", "\t", "\n"}

IsDigit(c) == \E i \in 1..Len(Digits) : Digits[i] = c

DigitValue(c) == (CHOOSE i \in 1..Len(Digits) : Digits[i] = c) - 1

\* the string without its leading whitespace
SkipSpaces(str) ==
  LET n == CHOOSE i \in 0..Len(str) :
             /\ \A j \in 1..i : IsSpace(str[j])
             /\ (i = Len(str) \/ ~IsSpace(str[i + 1]))
  IN SubSeq(str, n + 1, Len(str))

\* the characters before the first whitespace
WordPrefix(str) ==
  LET n == CHOOSE i \in 0..Len(str) :
             /\ \A j \in 1..i : ~IsSpace(str[j])
             /\ (i = Len(str) \/ IsSpace(str[i + 1]))
  IN SubSeq(str, 1, n)

\* the digits the string starts with
DigitPrefix(str) ==
  LET n == CHOOSE i \in 0..Len(str) :
             /\ \A j \in 1..i : IsDigit(str[j])
             /\ (i = Len(str) \/ ~IsDigit(str[i + 1]))
  IN SubSeq(str, 1, n)

RECURSIVE DigitsValue(_)
DigitsValue(ds) ==
  IF ds = <<>> THEN 0
  ELSE 10 * DigitsValue(SubSeq(ds, 1, Len(ds) - 1)) + DigitValue(ds[Len(ds)])

RECURSIVE Pow10(_)
Pow10(n) == IF n = 0 THEN 1 ELSE 10 * Pow10(n - 1)

\* the decimal m * 10^-e without trailing zeros in its fraction
RECURSIVE Normalize(_, _)
Normalize(m, e) ==
  IF e > 0 /\ m % 10 = 0 THEN Normalize(m \div 10, e - 1) ELSE DoubleVal(m, e)

\* the zero of a type: what a failed numeric extraction stores since C++11
ZeroOf(typ) ==
  CASE typ = "int"    -> IntVal(0)
    [] typ = "bool"   -> BoolVal(FALSE)
    [] typ = "double" -> DoubleVal(0, 0)

\* ss >> value on the buffer `buf`, `value` holding `init`: the outcomes a build
\* can produce, each the value left in `value` and whether failbit was set.
\* A buffer with nothing but whitespace fails in the sentry and leaves `value`
\* alone; a failed numeric parse leaves it alone (C++98) or zeroes it (C++11).
ExtractOutcomes(buf, typ, init) ==
  LET s      == SkipSpaces(buf)
      signed == s # <<>> /\ Head(s) \in {"+", "-"}
      neg    == s # <<>> /\ Head(s) = "-"
      body   == IF signed THEN Tail(s) ELSE s
      whole  == DigitPrefix(body)
      rest   == SubSeq(body, Len(whole) + 1, Len(body))
      frac   == IF rest # <<>> /\ Head(rest) = "."
                THEN DigitPrefix(Tail(rest)) ELSE <<>>
      n      == (IF neg THEN -1 ELSE 1) * DigitsValue(whole)
      m      == (IF neg THEN -1 ELSE 1)
                * (DigitsValue(whole) * Pow10(Len(frac)) + DigitsValue(frac))
      failed == {[value |-> init, fail |-> TRUE], [value |-> ZeroOf(typ), fail |-> TRUE]}
  IN IF s = <<>> THEN {[value |-> init, fail |-> TRUE]}
     ELSE CASE typ = "string" ->
                 {[value |-> StringVal(WordPrefix(s)), fail |-> FALSE]}
            [] typ = "int" ->
                 IF whole = <<>> THEN failed
                 ELSE {[value |-> IntVal(n), fail |-> FALSE]}
            [] typ = "bool" ->
                 IF whole = <<>> THEN failed
                 ELSE {[value |-> BoolVal(n # 0), fail |-> n \notin {0, 1}]}
            [] typ = "double" ->
                 IF whole = <<>> /\ frac = <<>> THEN failed
                 ELSE {[value |-> Normalize(m, Len(frac)), fail |-> FALSE]}

\* ss.str(std::string()); ss.clear()
ClearedStream == [buf |-> <<>>, fail |-> FALSE]

\* set(key, value) on the object p = [parameters, ss]
SetEntry(p, key, val) ==
  [parameters |-> MapPut(p.parameters, key, p.ss.buf \o Insert(val)),
   ss |-> ClearedStream]

\* a faulty get: it reads parameters[key], which inserts a missing key with an
\* empty value, and never throws
GetOutcomesIndexing(p, key, typ, init) ==
  LET m == IF key \in DOMAIN p.parameters THEN p.parameters
           ELSE MapPut(p.parameters, key, <<>>)
  IN {[parameters |-> m, ss |-> ClearedStream, out |-> r.value, err |-> NoError] :
        r \in ExtractOutcomes(p.ss.buf \o m[key], typ, init)}

\* get(key, value) on the object p = [parameters, ss], `value` holding `init`:
\* the outcomes, each the object, `value` and the exception afterwards
GetOutcomes(p, key, typ, init) ==
  IF key \in DOMAIN p.parameters
  THEN {[parameters |-> p.parameters, ss |-> ClearedStream, out |-> r.value,
         err |-> NoError] :
          r \in ExtractOutcomes(p.ss.buf \o p.parameters[key], typ, init)}
  ELSE {[parameters |-> p.parameters, ss |-> p.ss, out |-> init,
         err |-> KeyError(key)]}

\* the loop of getSection from `keys` on: p.set(key, value)
RECURSIVE SectionObject(_, _, _, _)
SectionObject(params, keys, sectionName, p) ==
  IF keys = <<>> THEN p
  ELSE
    LET fullPathKey == Head(keys)
        next == IF SectionOf(fullPathKey) = sectionName
                THEN SetEntry(p, KeyOf(fullPathKey), StringVal(params[fullPathKey]))
                ELSE p
    IN SectionObject(params, Tail(keys), sectionName, next)

\* Parameters(): an empty map and a fresh stream
NewObject == [parameters |-> EmptyMap, ss |-> ClearedStream]

GetSectionOf(params, sectionName) ==
  SectionObject(params, SortedKeys(DOMAIN params), sectionName, NewObject)

----------------------------------------------------------------------------
(* The texts of the files load is given                                    *)

\* a section with two keys, ending in a newline
FileTwoKeys ==
  <<"[", "a", "]", "\n", "x", " ", "=", " ", "1", "\n", "y", " ", "=", " ",
    "2", "\n">>

\* a key before any header, then a section
FileNoHeaderFirst ==
  <<"x", " ", "=", " ", "1", "\n", "[", "a", "]", "\n", "x", " ", "=", " ",
    "2">>

\* the same key assigned twice
FileDuplicateKey ==
  <<"[", "a", "]", "\n", "x", " ", "=", " ", "1", "\n", "x", " ", "=", " ",
    "2">>

\* spaces around header, key and value; comments; a value of two words
FileSpacesAndComments ==
  <<" ", "[", " ", "b", " ", "]", " ", "#", " ", "x", "\n", " ", " ", "y",
    "=", "a", " ", "b", " ", " ", "#", " ", "x", "\n">>

\* comment-only, empty and space-only lines
FileBlankLines ==
  <<"#", " ", "x", "\n", "\n", "[", "a", "]", "\n", " ", "\n", "y", " ", "=",
    " ", "2">>

\* a line with no = between two assignments
FileNoEquals ==
  <<"[", "a", "]", "\n", "x", " ", "=", " ", "1", "\n", "k", " ", "x", "\n",
    "y", " ", "=", " ", "2">>

\* a line with no key, after an assignment
FileNoKey ==
  <<"[", "a", "]", "\n", "y", " ", "=", " ", "2", "\n", " ", "=", " ", "1">>

\* a line whose value is only a comment, before an assignment
FileNoValue ==
  <<"[", "a", "]", "\n", "x", " ", "=", " ", " ", "#", " ", "1", "\n", "y",
    " ", "=", " ", "1">>

\* only a line with no =
FileNoEqualsFirst ==
  <<"k", " ", "x">>

\* the empty file
FileEmpty ==
  <<>>

\* section a-b, which sorts between the keys a and a/x
FileDashSection ==
  <<"[", "a", "-", "b", "]", "\n", "x", " ", "=", " ", "1", "\n", "[", "a",
    "]", "\n", "x", " ", "=", " ", "2">>

\* an empty header and a header with a / in it
FileSlashSection ==
  <<"[", "]", "\n", "x", " ", "=", " ", "2", "\n", "[", "a", "/", "b", "]",
    "\n", "k", " ", "=", " ", "1">>

\* a value with = in it; a line that starts with [ and is no header
FileOddAssignments ==
  <<"x", " ", "=", " ", "1", " ", "=", " ", "2", "\n", "[", "a", "]", "=",
    "b">>

\* a value that is one tab
FileTabValue ==
  <<"[", "a", "]", "\n", "x", " ", "=", " ", "\t">>

\* section b opened twice
FileSectionTwice ==
  <<"[", "b", "]", "\n", "y", " ", "=", " ", "1", "\n", "[", "a", "]", "\n",
    "x", " ", "=", " ", "2", "\n", "[", "b", "]", "\n", "x", " ", "=", " ",
    "1">>

\* only =
FileOnlyEquals ==
  <<"=">>

\* a line that starts with [ and does not end with ]
FileOpenBracket ==
  <<"[", "a">>

\* other values for the keys of FileTwoKeys
FileOverride ==
  <<"[", "a", "]", "\n", "x", " ", "=", " ", "2", "\n", "y", " ", "=", " ",
    "1">>

Files ==
  {FileTwoKeys,
   FileNoHeaderFirst,
   FileDuplicateKey,
   FileSpacesAndComments,
   FileBlankLines,
   FileNoEquals,
   FileNoKey,
   FileNoValue,
   FileNoEqualsFirst,
   FileEmpty,
   FileDashSection,
   FileSlashSection,
   FileOddAssignments,
   FileTabValue,
   FileSectionTwice,
   FileOnlyEquals,
   FileOpenBracket,
   FileOverride}

----------------------------------------------------------------------------
(* The calls a program makes, and their arguments                          *)

\* the longest sequence of calls on one store that is explored
MaxOps == 3

\* the longest sequence of calls that is explored over all of Files
MaxStoreOps == 3

Types == {"int", "double", "bool", "string"}

\* what the caller's variable holds before get
InitOf(typ) ==
  CASE typ = "int"    -> IntVal(7)
    [] typ = "double" -> DoubleVal(5, 1)
    [] typ = "bool"   -> BoolVal(FALSE)
    [] typ = "string" -> StringVal(<<"y">>)

\* -12, 2.4, true, "a b"
SetVals ==
  {IntVal(-12), DoubleVal(24, 1), BoolVal(TRUE), StringVal(<<"a", " ", "b">>)}

\* -12, ""
StoreSetVals == {IntVal(-12), StringVal(<<>>)}

\* "a/x", "k"
StoreKeys == {<<"a", "/", "x">>, <<"k">>}

StoreTypes == {"int", "string"}

\* "a/x", "k", "a"
SetKeys == {<<"a", "/", "x">>, <<"k">>, <<"a">>}

\* "a/x", "k", "b/y"
GetKeys == {<<"a", "/", "x">>, <<"k">>, <<"b", "/", "y">>}

\* "a", "k", "b"
SectionNames == {<<"a">>, <<"k">>, <<"b">>}

SomeFiles == {FileTwoKeys, FileDashSection, FileSpacesAndComments, FileNoEquals}

NoFile == [exists |-> FALSE, text |-> <<>>, from |-> EmptyMap]

NoCall ==
  [op |-> "none", key |-> <<>>, val |-> NoVal, typ |-> "none", text |-> <<>>,
   pre |-> EmptyMap]

\* a call and the map it starts from
Call(op, key, val, typ, text) ==
  [op |-> op, key |-> key, val |-> val, typ |-> typ, text |-> text,
   pre |-> parameters]

Record(call) ==
  /\ last' = call
  /\ prev' = [call |-> last, err |-> err]
  /\ ops' = Append(ops, call.op)

----------------------------------------------------------------------------
(* The state machine                                                       *)

\* Parameters::Parameters()
Init ==
  /\ parameters = EmptyMap
  /\ ss = ClearedStream
  /\ disk = NoFile
  /\ other = EmptyMap
  /\ sectionMap = EmptyMap
  /\ out = NoVal
  /\ err = NoError
  /\ last = NoCall
  /\ prev = [call |-> NoCall, err |-> NoError]
  /\ ops = <<>>

\* load(filename), the file opening and holding one of `files`
Load(files) ==
  \E text \in files :
    LET r == LoadText(parameters, text)
    IN /\ parameters' = r.parameters
       /\ err' = r.err
       /\ Record(Call("load", <<>>, NoVal, "none", text))
       /\ UNCHANGED <<ss, disk, other, sectionMap, out>>

\* load(filename), the file not opening
LoadUnopenable ==
  /\ err' = ParametersFileError("Cannot open input file", <<>>, <<>>)
  /\ Record(Call("load unopenable", <<>>, NoVal, "none", <<>>))
  /\ UNCHANGED <<parameters, ss, disk, other, sectionMap, out>>

\* save(filename), the file opening: `from` remembers the map written
Save ==
  /\ disk' = [exists |-> TRUE, text |-> SaveText(parameters), from |-> parameters]
  /\ err' = NoError
  /\ Record(Call("save", <<>>, NoVal, "none", <<>>))
  /\ UNCHANGED <<parameters, ss, other, sectionMap, out>>

\* save(filename), the file not opening
SaveUnopenable ==
  /\ err' = ParametersFileError("Cannot open output file", <<>>, <<>>)
  /\ Record(Call("save unopenable", <<>>, NoVal, "none", <<>>))
  /\ UNCHANGED <<parameters, ss, disk, other, sectionMap, out>>

\* Parameters(filename) on the file save wrote: a fresh object loads it; when
\* load throws no object is built, and `other` holds what load had stored
Reload ==
  /\ disk.exists
  /\ LET r == LoadText(NewObject.parameters, disk.text)
     IN /\ other' = r.parameters
        /\ err' = r.err
  /\ Record(Call("reload", <<>>, NoVal, "none", disk.text))
  /\ UNCHANGED <<parameters, ss, disk, sectionMap, out>>

\* get(key, value) for a `value` of type typ
Get(keys, types) ==
  \E key \in keys, typ \in types :
    \E r \in GetOutcomes([parameters |-> parameters, ss |-> ss], key, typ, InitOf(typ)) :
      /\ parameters' = r.parameters
      /\ ss' = r.ss
      /\ out' = r.out
      /\ err' = r.err
      /\ Record(Call("get", key, InitOf(typ), typ, <<>>))
      /\ UNCHANGED <<disk, other, sectionMap>>

\* set(key, value)
Set(keys, vals) ==
  \E key \in keys, val \in vals :
    LET p == SetEntry([parameters |-> parameters, ss |-> ss], key, val)
    IN /\ parameters' = p.parameters
       /\ ss' = p.ss
       /\ err' = NoError
       /\ Record(Call("set", key, val, val.t, <<>>))
       /\ UNCHANGED <<disk, other, sectionMap, out>>

\* getSection(sectionName)
GetSection(names) ==
  \E sectionName \in names :
    /\ other' = GetSectionOf(parameters, sectionName).parameters
    /\ err' = NoError
    /\ Record(Call("getSection", sectionName, NoVal, "none", <<>>))
    /\ UNCHANGED <<parameters, ss, disk, sectionMap, out>>

\* getSectionMap(sectionName)
GetSectionMap(names) ==
  \E sectionName \in names :
    /\ sectionMap' = GetSectionMapOf(parameters, sectionName)
    /\ err' = NoError
    /\ Record(Call("getSectionMap", sectionName, NoVal, "none", <<>>))
    /\ UNCHANGED <<parameters, ss, disk, other, out>>

\* Parameters(const Parameters& p)
Copy ==
  /\ other' = parameters
  /\ err' = NoError
  /\ Record(Call("copy", <<>>, NoVal, "none", <<>>))
  /\ UNCHANGED <<parameters, ss, disk, sectionMap, out>>

\* fewer than n calls were made
CanCall(n) == Len(ops) < n

Next ==
  \/ CanCall(MaxOps) /\ Load(SomeFiles)
  \/ CanCall(MaxOps) /\ LoadUnopenable
  \/ CanCall(MaxOps) /\ Save
  \/ CanCall(MaxOps) /\ SaveUnopenable
  \/ CanCall(MaxOps) /\ Reload
  \/ CanCall(MaxOps) /\ Get(GetKeys, Types)
  \/ CanCall(MaxOps) /\ Set(SetKeys, SetVals)
  \/ CanCall(MaxOps) /\ GetSection(SectionNames)
  \/ CanCall(MaxOps) /\ GetSectionMap(SectionNames)
  \/ CanCall(MaxOps) /\ Copy

Spec == Init /\ [][Next]_vars

\* the calls that build and read a store, over all of Files
NextStore ==
  \/ CanCall(MaxStoreOps) /\ Load(Files)
  \/ CanCall(MaxStoreOps) /\ LoadUnopenable
  \/ CanCall(MaxStoreOps) /\ Get(StoreKeys, StoreTypes)
  \/ CanCall(MaxStoreOps) /\ Set(StoreKeys, StoreSetVals)
  \/ CanCall(MaxStoreOps) /\ GetSection({<<"a">>})
  \/ CanCall(MaxStoreOps) /\ Copy

SpecStore == Init /\ [][NextStore]_vars

----------------------------------------------------------------------------
(* The vocabulary of the properties: the file format as the specification  *)
(* words it, defined apart from the operators that model the code          *)

Has(str, c) == \E i \in 1..Len(str) : str[i] = c

Max(S) == CHOOSE x \in S : \A y \in S : y <= x

Min(S) == CHOOSE x \in S : \A y \in S : x <= y

\* the part before the first c (all of str when there is none)
RECURSIVE Before(_, _)
Before(str, c) ==
  IF str = <<>> \/ Head(str) = c THEN <<>>
  ELSE <<Head(str)>> \o Before(Tail(str), c)

\* the part after the first c (nothing when there is none)
RECURSIVE After(_, _)
After(str, c) ==
  IF str = <<>> THEN <<>>
  ELSE IF Head(str) = c THEN Tail(str)
  ELSE After(Tail(str), c)

RECURSIVE StripLeft(_)
StripLeft(str) ==
  IF str # <<>> /\ Head(str) = " " THEN StripLeft(Tail(str)) ELSE str

RECURSIVE StripRight(_)
StripRight(str) ==
  IF str # <<>> /\ str[Len(str)] = " "
  THEN StripRight(SubSeq(str, 1, Len(str) - 1)) ELSE str

\* without the ASCII spaces around it
Strip(str) == StripRight(StripLeft(str))

RECURSIVE SplitLines(_)
SplitLines(text) ==
  IF Has(text, "\n")
  THEN <<Before(text, "\n")>> \o SplitLines(After(text, "\n"))
  ELSE <<text>>

NonEmpty(str) == str # <<>>

\* the cleaned lines of a text: comment-stripped, space-trimmed, non-empty
Cleaned(text) ==
  LET raw == SplitLines(text)
  IN SelectSeq([i \in 1..Len(raw) |-> Strip(Before(raw[i], "#"))], NonEmpty)

IsHeaderLine(line) == Head(line) = "[" /\ line[Len(line)] = "]"

HeaderName(line) == Strip(SubSeq(line, 2, Len(line) - 1))

\* a cleaned line that is no header and has no =, no key or no value
IsMalformedLine(line) ==
  /\ ~IsHeaderLine(line)
  /\ \/ ~Has(line, "=")
     \/ Strip(Before(line, "=")) = <<>>
     \/ Strip(After(line, "=")) = <<>>

\* the index of the first malformed line of L, or Len(L) + 1
FirstMalformed(L) ==
  Min({i \in 1..Len(L) : IsMalformedLine(L[i])} \cup {Len(L) + 1})

\* the section in force at line i of L
SectionAt(L, i) ==
  LET hs == {j \in 1..(i - 1) : IsHeaderLine(L[j])}
  IN IF hs = {} THEN <<>> ELSE HeaderName(L[Max(hs)])

\* the lines among the first n of L that assign the composite key k
AssignmentsTo(L, n, k) ==
  {i \in 1..n : /\ ~IsHeaderLine(L[i])
                /\ SectionAt(L, i) \o <<"/">> \o Strip(Before(L[i], "=")) = k}

\* the composite keys the first n lines of L assign
Assigned(L, n) ==
  {SectionAt(L, i) \o <<"/">> \o Strip(Before(L[i], "=")) :
     i \in {j \in 1..n : ~IsHeaderLine(L[j])}}

\* the value of the last of the first n lines of L that assign k
LastValue(L, n, k) == Strip(After(L[Max(AssignmentsTo(L, n, k))], "="))

\* pre with the assignments of the first n lines of L laid over it
Overlay(pre, L, n) ==
  [k \in (DOMAIN pre) \cup Assigned(L, n) |->
     IF k \in Assigned(L, n) THEN LastValue(L, n, k) ELSE pre[k]]

IsMalformedLineError(e) ==
  /\ e.type = "ParametersFileError"
  /\ e.msg \in {"malformed expression line", "missing key or value"}

IsFileOpenError(e) ==
  /\ e.type = "ParametersFileError"
  /\ e.msg \in {"Cannot open input file", "Cannot open output file"}

\* every key is section/key with a key part, and no value is empty
WellFormed(m) ==
  \A k \in DOMAIN m : Has(k, "/") /\ After(k, "/") # <<>> /\ m[k] # <<>>

\* the entries of section s under their bare keys
Projection(m, s) ==
  LET ks == {k \in DOMAIN m : Has(k, "/") /\ Before(k, "/") = s}
  IN [bare \in {After(k, "/") : k \in ks} |-> m[s \o <<"/">> \o bare]]

----------------------------------------------------------------------------
(* The properties                                                          *)

\* C1: saving a store and loading the file into a fresh store gives a store
\* equal to the saved one, entry for entry.
SaveLoadRoundTrip ==
  last.op = "reload" => err = NoError /\ other = disk.from

\* C2: get right after set of the same key, with a variable of the type set,
\* succeeds and yields the value that was set.
SetGetRoundTrip ==
  (/\ last.op = "get"
   /\ prev.call.op = "set"
   /\ prev.call.key = last.key
   /\ prev.call.typ = last.typ)
  => err = NoError /\ out = prev.call.val

\* C3: load never removes an entry, and after two loads that both succeed every
\* key holds the last value the second file assigns to it, else the last value
\* the first file assigns to it, else the value it had before; the keys are
\* those of before and of both files, each file's lines read from the empty
\* section on.
MergeSemantics ==
  /\ last.op = "load" => DOMAIN last.pre \subseteq DOMAIN parameters
  /\ (/\ last.op = "load" /\ err = NoError
      /\ prev.call.op = "load" /\ prev.err = NoError)
     => LET A  == Cleaned(prev.call.text)
            B  == Cleaned(last.text)
            P  == prev.call.pre
            KA == Assigned(A, Len(A))
            KB == Assigned(B, Len(B))
        IN /\ DOMAIN parameters = (DOMAIN P) \cup KA \cup KB
           /\ \A k \in DOMAIN parameters :
                parameters[k] = IF k \in KB THEN LastValue(B, Len(B), k)
                                ELSE IF k \in KA THEN LastValue(A, Len(A), k)
                                ELSE P[k]

\* a store with an entry of its own loads FileTwoKeys, then FileNoHeaderFirst:
\* a/x is in both files, a/y in the first only, /x in the second only and read
\* before any header of the second
MergeSemanticsWitness ==
  /\ ops = <<"set", "load", "load">>
  /\ err = NoError /\ prev.err = NoError
  /\ prev.call.text = FileTwoKeys
  /\ last.text = FileNoHeaderFirst
  /\ prev.call.pre # EmptyMap
  /\ <<"/", "x">> \in DOMAIN parameters

\* C4: save writes one line per entry, and the header of a section at most
\* once: a section is never split into two groups. (A header is the line after
\* an empty line.)
SaveGroupsSections ==
  last.op = "save" =>
    LET L == SplitLines(disk.text)
        H == {i \in 2..Len(L) : L[i - 1] = <<>> /\ L[i] # <<>>}
        E == {i \in 1..Len(L) : L[i] # <<>> /\ i \notin H}
    IN /\ Cardinality(E) = Cardinality(DOMAIN last.pre)
       /\ \A i \in H : \A j \in H : i # j => L[i] # L[j]

\* C5: getSection and getSectionMap return the entries whose key splits at its
\* first / into the section asked for, under their bare keys, and leave the
\* store as it was.
SectionProjection ==
  /\ last.op = "getSectionMap" =>
       sectionMap = Projection(last.pre, last.key) /\ parameters = last.pre
  /\ last.op = "getSection" =>
       other = Projection(last.pre, last.key) /\ parameters = last.pre

\* C6: a load that opens its file fails with a malformed-line error exactly
\* when some cleaned line is malformed, and ends without error otherwise.
MalformedLineRejected ==
  last.op = "load" =>
    LET L == Cleaned(last.text)
    IN IF \E i \in 1..Len(L) : IsMalformedLine(L[i])
       THEN IsMalformedLineError(err)
       ELSE err = NoError

\* loads that fail on a line with no =, on a line with no key and on a line
\* with no value, the last under a section and after other calls
MalformedLineRejectedWitness ==
  /\ last.op = "load"
  /\ Len(ops) > 1
  /\ last.text = FileNoValue
  /\ err.msg = "missing key or value"
  /\ err.section = <<"a">>

\* C7: get of a key the store does not hold throws KeyError with that key and
\* changes nothing; get of a key it holds does not throw KeyError.
MissingKeyReported ==
  last.op = "get" =>
    /\ parameters = last.pre
    /\ IF last.key \in DOMAIN last.pre
       THEN err.type # "KeyError"
       ELSE err = KeyError(last.key)

\* get of a/x from a store that holds other keys only
MissingKeyReportedWitness ==
  /\ last.op = "get"
  /\ last.key = <<"a", "/", "x">>
  /\ last.pre # EmptyMap
  /\ err.type = "KeyError"
  /\ parameters = last.pre

\* C8: get of a key whose stored string does not parse as the type asked for
\* fails with a conversion error.
ConversionFailureReported ==
  (/\ last.op = "get"
   /\ last.key \in DOMAIN last.pre
   /\ \A r \in ExtractOutcomes(last.pre[last.key], last.typ, last.val) : r.fail)
  => err.type = "TypeConversionError"

\* C9: a load that fails on a malformed line leaves the store as it was before
\* the call with the assignments of the lines before the first malformed line
\* laid over it, and nothing of that line or a later one; a load whose file
\* does not open leaves the store as it was.
FailedLoadKeepsPrefix ==
  /\ (last.op = "load" /\ err # NoError) =>
       LET L == Cleaned(last.text)
       IN parameters = Overlay(last.pre, L, FirstMalformed(L) - 1)
  /\ last.op = "load unopenable" =>
       IsFileOpenError(err) /\ parameters = last.pre

\* FileNoEquals fails on its third line: a/x of its second line is stored, a/y
\* of its fourth is not
FailedLoadKeepsPrefixWitness ==
  /\ last.op = "load"
  /\ last.text = FileNoEquals
  /\ IsMalformedLineError(err)
  /\ <<"a", "/", "x">> \in DOMAIN parameters
  /\ <<"a", "/", "x">> \notin DOMAIN last.pre
  /\ <<"a", "/", "y">> \notin DOMAIN parameters

\* C10, as claimed: in every store that load, set, getSection and copy build,
\* every key is section/key with a key part and no value is empty.
AllStoresWellFormed ==
  /\ WellFormed(parameters)
  /\ last.op \in {"copy", "getSection"} => WellFormed(other)

\* C10, amended: that holds of every store built by load alone and of its
\* copies.
LoadedStoresWellFormed ==
  (\A i \in 1..Len(ops) : ops[i] # "set") =>
    /\ WellFormed(parameters)
    /\ last.op = "copy" => WellFormed(other)

\* a copy of a store loaded from FileNoHeaderFirst and FileSlashSection: keys
\* in the empty section and a section name with a / in it
LoadedStoresWellFormedWitness ==
  /\ ops = <<"load", "load", "copy">>
  /\ other = parameters
  /\ {<<"/", "x">>, <<"a", "/", "x">>, <<"a", "/", "b", "/", "k">>} \subseteq DOMAIN other

====
